---- MODULE Spec2Model ----
(***************************************************************************)
(* A model of ctpl::thread_pool (src/ctpl_stl.h): the mutex-protected      *)
(* task queue, the worker loop of set_thread, and the controller calls     *)
(* push / resize / stop / pop / ~thread_pool, at the granularity of the    *)
(* atomic steps the code takes (queue operations, atomic flag accesses,    *)
(* critical sections of the pool mutex, condition-variable waits).         *)
(*                                                                         *)
(* One controller thread issues the calls one after the other (resize and  *)
(* stop must be serialized by the caller, src/ctpl_stl.h:209); every       *)
(* spawned std::thread is a worker instance running concurrently.          *)
(***************************************************************************)
EXTENDS Integers, Sequences, FiniteSets, TLC

\* Bounds of the model.
MaxTasks == 2      \* tasks ever submitted with push
MaxSize  == 2      \* largest nThreads passed to resize
MaxSpawn == 2      \* worker threads ever spawned

Tasks   == 1..MaxTasks
Workers == 1..MaxSpawn
NoTask  == 0       \* _f == nullptr / isPop == false

VARIABLES
    q,          \* detail::Queue::q, the pending task pointers, head first
    threads,    \* thread_pool::threads (and flags): the managed worker of each slot
    flag,       \* *flags[i], the shared atomic stop flag of each worker instance
    isDone,     \* thread_pool::isDone
    isStop,     \* thread_pool::isStop
    nWaiting,   \* thread_pool::nWaiting
    mutex,      \* thread_pool::mutex: 0 when free, else the worker holding it
    wpc,        \* each worker's position in the lambda of set_thread
    widx,       \* the index i captured by the worker's lambda
    wtask,      \* the worker's _f (NoTask when isPop is false)
    wmode,      \* the std::thread object: unborn, managed, detached, joined
    joinCount,  \* how often join() was called on the worker's thread
    lateCount,  \* tasks the worker took out of the queue with its flag already set
    nPushed,    \* tasks submitted so far; task t is the t-th push
    kind,       \* what the task's callable does: "ok" returns, "throw" throws
    execCount,  \* how often the task's body was started
    handle,     \* what was stored in the task's future: a subset of {value, failure}
    claimCount, \* how often the task pointer was taken out of the queue
    freeCount,  \* how often the task's std::function object was deleted
    discarded,  \* tasks deleted unexecuted by clear_queue
    popped,     \* tasks handed to the caller by pop(): "no", "held", "run"
    cpc,        \* the controller's position: idle, inside a call, or gone
    cop,        \* the call in progress, or at idle the call that returned last
    carg,       \* its argument (resize: nThreads; push: the task) or result (pop)
    cret,       \* "done" when the call acted, "noop" when it returned early
    ci          \* the loop index i of resize and stop

vars == <<q, threads, flag, isDone, isStop, nWaiting, mutex, wpc, widx, wtask,
          wmode, joinCount, lateCount, nPushed, kind, execCount, handle, claimCount,
          freeCount, discarded, popped, cpc, cop, carg, cret, ci>>

poolv == <<threads, isDone, isStop, nWaiting, mutex>>
workv == <<wpc, widx, wtask, wmode, flag, joinCount, lateCount>>
taskv == <<nPushed, kind, execCount, handle, claimCount, freeCount, discarded, popped>>
ctlv  == <<cpc, cop, carg, cret, ci>>

----------------------------------------------------------------------------
(* detail::Queue *)

\* A push at the front.
QueuePushFront(s, v) == <<v>> \o s

QueuePush(s, v) == Append(s, v)

QueueEmpty(s) == s = <<>>

\* q.back() for q.front().
QueueBack(s) == s[Len(s)]

QueueFront(s) == Head(s)

\* pop() without q.pop(): the front is read and left in the queue.
QueueRestKeepsFront(s) == s

QueueRest(s) == Tail(s)

----------------------------------------------------------------------------
(* helpers *)

Range(s) == {s[k] : k \in 1..Len(s)}

Size == Len(threads)

Waiting == {w \in Workers : wpc[w] = "waiting"}

\* A notify_all that wakes nobody.
NotifyNobody(pc) == pc

\* cv.notify_all(): every thread blocked in cv.wait is woken.
NotifyAll(pc) == [w \in Workers |-> IF pc[w] = "waiting" THEN "notified" ELSE pc[w]]

\* A push that notifies nobody.
NotifyNone(pc) == {pc}

\* cv.notify_one(): one of the threads blocked in cv.wait, if any, is woken.
NotifyOne(pc) ==
    IF \E w \in Workers : pc[w] = "waiting"
    THEN {[pc EXCEPT ![w] = "notified"] : w \in {x \in Workers : pc[x] = "waiting"}}
    ELSE {pc}

\* What std::packaged_task stores in the shared state when the callable ends.
Outcome(k) == IF k = "throw" THEN "failure" ELSE "value"

\* The positions at which the worker's next step reads or writes a member of
\* the pool object (q, mutex, cv, nWaiting, isDone) through the captured this.
TouchesPool == {"pop", "lock", "pred", "woke", "waiting", "notified"}

\* The process has been brought down by an access to the destroyed pool.
Crashed == \E w \in Workers : wpc[w] = "fault"

Live == ~Crashed

NSpawned == Cardinality({w \in Workers : wmode[w] # "unborn"})

----------------------------------------------------------------------------
Init ==
    /\ q = <<>>
    /\ threads = <<>>
    /\ flag = [w \in Workers |-> FALSE]
    /\ isDone = FALSE
    /\ isStop = FALSE
    /\ nWaiting = 0
    /\ mutex = 0
    /\ wpc = [w \in Workers |-> "unborn"]
    /\ widx = [w \in Workers |-> 0]
    /\ wtask = [w \in Workers |-> NoTask]
    /\ wmode = [w \in Workers |-> "unborn"]
    /\ joinCount = [w \in Workers |-> 0]
    /\ lateCount = [w \in Workers |-> 0]
    /\ nPushed = 0
    /\ kind = [t \in Tasks |-> "ok"]
    /\ execCount = [t \in Tasks |-> 0]
    /\ handle = [t \in Tasks |-> {}]
    /\ claimCount = [t \in Tasks |-> 0]
    /\ freeCount = [t \in Tasks |-> 0]
    /\ discarded = {}
    /\ popped = [t \in Tasks |-> "no"]
    /\ cpc = "idle"
    /\ cop = "ctor"
    /\ carg = 0
    /\ cret = "done"
    /\ ci = 0

----------------------------------------------------------------------------
(* The worker: the lambda f of thread_pool::set_thread *)

\* A task's exception ends the thread.
AfterTaskUncaught(k, f) == IF k = "throw" \/ f THEN "retired" ELSE "pop"

\* A worker that retires after a task only once the queue is empty.
AfterTaskDrainsFirst(k, f) == IF f /\ q = <<>> THEN "retired" ELSE "pop"

\* A worker that does not read its flag after a task.
AfterTaskIgnoresFlag(k, f) == "pop"

\* Where the worker stands when (*_f)(i) has returned. std::packaged_task
\* catches what the callable throws and stores it in the future, so the call
\* returns normally for every kind of task (push, lines 408-413), and the
\* worker reads its flag (473): set, it returns; unset, it pops again (476).
AfterTask(k, f) == IF f THEN "retired" ELSE "pop"

\* isPop = this->q.pop(_f): at thread start (465) and in the else branch after
\* a task (476), where func, owning the task just executed, is then destroyed.
\* A successful pop is followed, with no access to shared state in between,
\* by the entry into (*_f)(i) (471): the task body starts on this worker.
WPop(w) ==
    /\ Live
    /\ wpc[w] = "pop"
    /\ freeCount' = IF wtask[w] # NoTask
                    THEN [freeCount EXCEPT ![wtask[w]] = @ + 1]
                    ELSE freeCount
    /\ IF QueueEmpty(q)
       THEN /\ wtask' = [wtask EXCEPT ![w] = NoTask]
            /\ wpc' = [wpc EXCEPT ![w] = "lock"]
            /\ UNCHANGED <<q, claimCount, execCount, lateCount>>
       ELSE /\ wtask' = [wtask EXCEPT ![w] = QueueFront(q)]
            /\ q' = QueueRest(q)
            /\ claimCount' = [claimCount EXCEPT ![QueueFront(q)] = @ + 1]
            /\ execCount' = [execCount EXCEPT ![QueueFront(q)] = @ + 1]
            /\ lateCount' = [lateCount EXCEPT ![w] = IF flag[w] THEN @ + 1 ELSE @]
            /\ wpc' = [wpc EXCEPT ![w] = "running"]
    /\ UNCHANGED <<poolv, widx, wmode, flag, joinCount, nPushed, kind,
                   handle, discarded, popped, ctlv>>

\* (*_f)(i) returns (471): the packaged_task has made the future ready with
\* the value or with the exception the callable threw. Then if (_flag)
\* return; (473-474): the thread ends and func deletes the task; otherwise
\* the worker goes on to the pop of line 476.
WExecEnd(w) ==
    /\ Live
    /\ wpc[w] = "running"
    /\ handle' = [handle EXCEPT ![wtask[w]] = @ \cup {Outcome(kind[wtask[w]])}]
    /\ wpc' = [wpc EXCEPT ![w] = AfterTask(kind[wtask[w]], flag[w])]
    /\ IF AfterTask(kind[wtask[w]], flag[w]) = "retired"
       THEN /\ freeCount' = [freeCount EXCEPT ![wtask[w]] = @ + 1]
            /\ wtask' = [wtask EXCEPT ![w] = NoTask]
       ELSE UNCHANGED <<freeCount, wtask>>
    /\ UNCHANGED <<q, poolv, widx, wmode, flag, joinCount, lateCount, nPushed, kind,
                   execCount, claimCount, discarded, popped, ctlv>>

\* std::unique_lock<std::mutex> lock(this->mutex); ++this->nWaiting; (480-481)
WLock(w) ==
    /\ Live
    /\ wpc[w] = "lock"
    /\ mutex = 0
    /\ mutex' = w
    /\ nWaiting' = nWaiting + 1
    /\ wpc' = [wpc EXCEPT ![w] = "pred"]
    /\ UNCHANGED <<q, threads, isDone, isStop, widx, wtask, wmode, flag, joinCount, lateCount,
                   taskv, ctlv>>

\* A wait without its predicate: any wakeup ends it.
WaitPredAlways(found, w) == TRUE

\* What the predicate of cv.wait returns (486): isPop || isDone || _flag.
WaitPred(found, w) == found \/ isDone \/ flag[w]

\* One evaluation of the predicate of cv.wait, the mutex held (484-487):
\* isPop = q.pop(_f); return isPop || isDone || _flag. When it is false the
\* wait releases the mutex and blocks.
WPred(w) ==
    /\ Live
    /\ wpc[w] = "pred"
    /\ IF ~QueueEmpty(q)
       THEN /\ WaitPred(TRUE, w)
            /\ wtask' = [wtask EXCEPT ![w] = QueueFront(q)]
            /\ q' = QueueRest(q)
            /\ claimCount' = [claimCount EXCEPT ![QueueFront(q)] = @ + 1]
            /\ lateCount' = [lateCount EXCEPT ![w] = IF flag[w] THEN @ + 1 ELSE @]
            /\ wpc' = [wpc EXCEPT ![w] = "woke"]
            /\ UNCHANGED mutex
       ELSE /\ UNCHANGED <<q, claimCount, wtask, lateCount>>
            /\ IF WaitPred(FALSE, w)
               THEN /\ wpc' = [wpc EXCEPT ![w] = "woke"]
                    /\ UNCHANGED mutex
               ELSE /\ wpc' = [wpc EXCEPT ![w] = "waiting"]
                    /\ mutex' = 0
    /\ UNCHANGED <<threads, isDone, isStop, nWaiting, widx, wmode, flag, joinCount,
                   nPushed, kind, execCount, handle, freeCount, discarded, popped,
                   ctlv>>

\* A notified (or spuriously woken) waiter reacquires the mutex inside cv.wait
\* and evaluates the predicate again (484).
WWake(w) ==
    /\ Live
    /\ wpc[w] = "notified"
    /\ mutex = 0
    /\ mutex' = w
    /\ wpc' = [wpc EXCEPT ![w] = "pred"]
    /\ UNCHANGED <<q, threads, isDone, isStop, nWaiting, widx, wtask, wmode, flag,
                   joinCount, lateCount, taskv, ctlv>>

\* std::condition_variable::wait may wake without a notification.
WSpurious(w) ==
    /\ Live
    /\ wpc[w] = "waiting"
    /\ wpc' = [wpc EXCEPT ![w] = "notified"]
    /\ UNCHANGED <<q, poolv, widx, wtask, wmode, flag, joinCount, lateCount, taskv, ctlv>>

\* if (!isPop) return; placed before --nWaiting: a worker that retires out of
\* the wait leaves the counter as it is.
WWokeKeepsCount(w) ==
    /\ Live
    /\ wpc[w] = "woke"
    /\ nWaiting' = IF wtask[w] = NoTask THEN nWaiting ELSE nWaiting - 1
    /\ mutex' = 0
    /\ wpc' = [wpc EXCEPT ![w] = IF wtask[w] = NoTask THEN "retired" ELSE "running"]
    /\ execCount' = IF wtask[w] = NoTask
                    THEN execCount
                    ELSE [execCount EXCEPT ![wtask[w]] = @ + 1]
    /\ UNCHANGED <<q, threads, isDone, isStop, widx, wtask, wmode, flag, joinCount,
                   lateCount, nPushed, kind, handle, claimCount, freeCount, discarded,
                   popped, ctlv>>

\* if (!isPop || _flag) return: a signalled worker drops the task it holds.
WWokeChecksFlag(w) ==
    /\ Live
    /\ wpc[w] = "woke"
    /\ nWaiting' = nWaiting - 1
    /\ mutex' = 0
    /\ wpc' = [wpc EXCEPT ![w] = IF wtask[w] = NoTask \/ flag[w]
                                 THEN "retired" ELSE "running"]
    /\ execCount' = IF wtask[w] = NoTask \/ flag[w]
                    THEN execCount
                    ELSE [execCount EXCEPT ![wtask[w]] = @ + 1]
    /\ UNCHANGED <<q, threads, isDone, isStop, widx, wtask, wmode, flag, joinCount,
                   lateCount, nPushed, kind, handle, claimCount, freeCount, discarded,
                   popped, ctlv>>

\* --this->nWaiting; if (!isPop) return; (489-492); lock is released by the
\* return or at the end of the iteration of while (true), and the worker
\* holding a task enters (*_f)(i) (471).
WWoke(w) ==
    /\ Live
    /\ wpc[w] = "woke"
    /\ nWaiting' = nWaiting - 1
    /\ mutex' = 0
    /\ wpc' = [wpc EXCEPT ![w] = IF wtask[w] = NoTask THEN "retired" ELSE "running"]
    /\ execCount' = IF wtask[w] = NoTask
                    THEN execCount
                    ELSE [execCount EXCEPT ![wtask[w]] = @ + 1]
    /\ UNCHANGED <<q, threads, isDone, isStop, widx, wtask, wmode, flag, joinCount, lateCount,
                   nPushed, kind, handle, claimCount, freeCount, discarded, popped,
                   ctlv>>

\* A worker that outlives the pool object reaches q, mutex, cv, nWaiting and
\* isDone through the dangling this captured at line 462. The access is
\* undefined: it may read the old contents (the worker's ordinary steps stay
\* enabled) or bring the process down (this step).
WFault(w) ==
    /\ Live
    /\ cpc = "gone"
    /\ wpc[w] \in TouchesPool
    /\ wpc' = [wpc EXCEPT ![w] = "fault"]
    /\ UNCHANGED <<q, poolv, widx, wtask, wmode, flag, joinCount, lateCount, taskv, ctlv>>

\* The steps of the loop itself.
WorkerLoop(w) ==
    \/ WPop(w)
    \/ WExecEnd(w)
    \/ WLock(w)
    \/ WPred(w)
    \/ WWake(w)
    \/ WWoke(w)

Worker(w) ==
    \/ WorkerLoop(w)
    \/ WSpurious(w)
    \/ WFault(w)

----------------------------------------------------------------------------
(* The controller: the public calls of thread_pool *)

\* push (406-424), up to q.push(_f): the task is wrapped and enqueued.
Push(k) ==
    /\ Live
    /\ cpc = "idle"
    /\ nPushed < MaxTasks
    /\ nPushed' = nPushed + 1
    /\ kind' = [kind EXCEPT ![nPushed + 1] = k]
    /\ q' = QueuePush(q, nPushed + 1)
    /\ cpc' = "push_notify"
    /\ cop' = "push"
    /\ carg' = nPushed + 1
    /\ cret' = "done"
    /\ UNCHANGED <<poolv, workv, execCount, handle, claimCount, freeCount,
                   discarded, popped, ci>>

\* A push that returns the future without cv.notify_one().
PushReturnsSilently ==
    /\ Live
    /\ cpc = "push_notify"
    /\ mutex = 0
    /\ cpc' = "idle"
    /\ UNCHANGED <<q, poolv, workv, taskv, cop, carg, cret, ci>>

\* push, lines 419-423: lock the mutex, cv.notify_one(), return the future.
PushNotify ==
    /\ Live
    /\ cpc = "push_notify"
    /\ mutex = 0
    /\ wpc' \in NotifyOne(wpc)
    /\ cpc' = "idle"
    /\ UNCHANGED <<q, poolv, widx, wtask, wmode, flag, joinCount, lateCount, taskv, cop, carg,
                   cret, ci>>

\* The worker instances resize(n) spawns for the slots Size..n-1.
NewWorkers(n) == (NSpawned + 1)..(NSpawned + (n - Size))

\* A guard that forgets isDone.
ResizeAllowedWhenDone == ~isStop

\* The guard of resize (215): !isStop && !isDone.
ResizeAllowed == ~isStop /\ ~isDone

\* resize (214-244). Growing is one step: the new flags are made and the new
\* threads started, each at its first pop. Shrinking starts the loop of
\* lines 230-233. A pool that is done or stopped is left as it is.
Resize(n) ==
    /\ Live
    /\ cpc = "idle"
    /\ cop' = "resize"
    /\ carg' = n
    /\ \/ /\ ~ResizeAllowed
          /\ cret' = "noop"
          /\ UNCHANGED <<q, poolv, workv, taskv, cpc, ci>>
       \/ /\ ResizeAllowed
          /\ Size <= n
          /\ NSpawned + (n - Size) <= MaxSpawn
          /\ threads' = threads \o [k \in 1..(n - Size) |-> NSpawned + k]
          /\ flag' = [w \in Workers |-> IF w \in NewWorkers(n) THEN FALSE ELSE flag[w]]
          /\ wpc' = [w \in Workers |-> IF w \in NewWorkers(n) THEN "pop" ELSE wpc[w]]
          /\ widx' = [w \in Workers |->
                        IF w \in NewWorkers(n) THEN Size + (w - NSpawned) - 1 ELSE widx[w]]
          /\ wmode' = [w \in Workers |->
                        IF w \in NewWorkers(n) THEN "managed" ELSE wmode[w]]
          /\ cret' = "done"
          /\ UNCHANGED <<q, isDone, isStop, nWaiting, mutex, wtask, joinCount, lateCount, taskv,
                         cpc, ci>>
       \/ /\ ResizeAllowed
          /\ Size > n
          /\ cpc' = "shrink_mark"
          /\ ci' = Size - 1
          /\ cret' = "done"
          /\ UNCHANGED <<q, poolv, workv, taskv>>

\* A shrink that sets the flags but leaves the threads attached.
ShrinkMarkNoDetach ==
    /\ Live
    /\ cpc = "shrink_mark"
    /\ flag' = [flag EXCEPT ![threads[ci + 1]] = TRUE]
    /\ IF ci - 1 >= carg
       THEN /\ ci' = ci - 1
            /\ UNCHANGED cpc
       ELSE /\ cpc' = "shrink_notify"
            /\ UNCHANGED ci
    /\ UNCHANGED <<q, poolv, wpc, widx, wtask, wmode, joinCount, lateCount, taskv,
                   cop, carg, cret>>

\* A shrink that marks and detaches the lowest slots instead of the highest.
ShrinkMarkLowest ==
    /\ Live
    /\ cpc = "shrink_mark"
    /\ flag' = [flag EXCEPT ![threads[Size - ci]] = TRUE]
    /\ wmode' = [wmode EXCEPT ![threads[Size - ci]] = "detached"]
    /\ IF ci - 1 >= carg
       THEN /\ ci' = ci - 1
            /\ UNCHANGED cpc
       ELSE /\ cpc' = "shrink_notify"
            /\ UNCHANGED ci
    /\ UNCHANGED <<q, poolv, wpc, widx, wtask, joinCount, lateCount, taskv, cop, carg, cret>>

\* One iteration of the loop of lines 230-233: *flags[i] = true and
\* threads[i]->detach(), for i from oldNThreads - 1 down to nThreads.
ShrinkMark ==
    /\ Live
    /\ cpc = "shrink_mark"
    /\ flag' = [flag EXCEPT ![threads[ci + 1]] = TRUE]
    /\ wmode' = [wmode EXCEPT ![threads[ci + 1]] = "detached"]
    /\ IF ci - 1 >= carg
       THEN /\ ci' = ci - 1
            /\ UNCHANGED cpc
       ELSE /\ cpc' = "shrink_notify"
            /\ UNCHANGED ci
    /\ UNCHANGED <<q, poolv, wpc, widx, wtask, joinCount, lateCount, taskv, cop, carg, cret>>

\* resize, lines 234-241: notify_all under the mutex, then both vectors are
\* cut to nThreads.
ShrinkNotify ==
    /\ Live
    /\ cpc = "shrink_notify"
    /\ mutex = 0
    /\ wpc' = NotifyAll(wpc)
    /\ threads' = SubSeq(threads, 1, carg)
    /\ cpc' = "idle"
    /\ UNCHANGED <<q, isDone, isStop, nWaiting, mutex, widx, wtask, wmode, flag,
                   joinCount, lateCount, taskv, cop, carg, cret, ci>>

\* Where stop leaves the controller: the destructor's stop(true) ends the
\* pool object's lifetime (169-171).
AfterStop(op) == IF op = "dtor" THEN "gone" ELSE "idle"

\* A stop without early returns.
StopNeverReturnsEarly(op) == FALSE

\* The early returns of stop: if (isStop) return (303-304) for stop(false),
\* if (isDone || isStop) return (314-315) for stop(true).
StopReturnsEarly(op) == IF op = "stopNow" THEN isStop ELSE isDone \/ isStop

\* stop(isWait), lines 301-317: the early returns, or the first flag write.
\* op is "stopNow" for stop(false), "stopWait" for stop(true) and "dtor" for
\* the stop(true) of ~thread_pool.
Stop(op) ==
    /\ Live
    /\ cpc = "idle"
    /\ cop' = op
    /\ carg' = 0
    /\ \/ /\ StopReturnsEarly(op)
          /\ cpc' = AfterStop(op)
          /\ cret' = "noop"
          /\ UNCHANGED <<q, poolv, workv, taskv, ci>>
       \/ /\ op = "stopNow"
          /\ ~StopReturnsEarly(op)
          /\ isStop' = TRUE
          /\ cpc' = IF Size > 0 THEN "stop_flags" ELSE "stop_clear"
          /\ ci' = 0
          /\ cret' = "done"
          /\ UNCHANGED <<q, threads, isDone, nWaiting, mutex, workv, taskv>>
       \/ /\ op # "stopNow"
          /\ ~StopReturnsEarly(op)
          /\ isDone' = TRUE
          /\ cpc' = "stop_notify"
          /\ cret' = "done"
          /\ UNCHANGED <<q, threads, isStop, nWaiting, mutex, workv, taskv, ci>>

\* A stop(false) that sets no flag.
StopFlagsNone ==
    /\ Live
    /\ cpc = "stop_flags"
    /\ cpc' = "stop_clear"
    /\ UNCHANGED <<q, poolv, workv, taskv, cop, carg, cret, ci>>

\* One iteration of the loop of lines 308-310: *flags[i] = true.
StopFlags ==
    /\ Live
    /\ cpc = "stop_flags"
    /\ flag' = [flag EXCEPT ![threads[ci + 1]] = TRUE]
    /\ IF ci + 1 < Size
       THEN /\ ci' = ci + 1
            /\ UNCHANGED cpc
       ELSE /\ cpc' = "stop_clear"
            /\ UNCHANGED ci
    /\ UNCHANGED <<q, poolv, wpc, widx, wtask, wmode, joinCount, lateCount, taskv, cop, carg,
                   cret>>

\* A clear_queue that deletes nothing.
ClearQueueSkips(at, next) ==
    /\ Live
    /\ cpc = at
    /\ cpc' = next
    /\ threads' = IF at = "stop_clear2" THEN <<>> ELSE threads
    /\ UNCHANGED <<q, isDone, isStop, nWaiting, mutex, workv, taskv, cop, carg, cret, ci>>

\* One iteration of clear_queue (256-260): while (q.pop(_f)) delete _f. The
\* loop ends at the first failed pop: at `first` (called from line 311) stop
\* goes on to the notification, at `last` (line 331) it clears both vectors
\* (332-333) and returns.
ClearQueue(at, next) ==
    /\ Live
    /\ cpc = at
    /\ IF ~QueueEmpty(q)
       THEN /\ q' = QueueRest(q)
            /\ claimCount' = [claimCount EXCEPT ![QueueFront(q)] = @ + 1]
            /\ freeCount' = [freeCount EXCEPT ![QueueFront(q)] = @ + 1]
            /\ discarded' = discarded \cup {QueueFront(q)}
            /\ UNCHANGED <<cpc, threads>>
       ELSE /\ cpc' = next
            /\ threads' = IF at = "stop_clear2" THEN <<>> ELSE threads
            /\ UNCHANGED <<q, claimCount, freeCount, discarded>>
    /\ UNCHANGED <<isDone, isStop, nWaiting, mutex, workv, nPushed, kind, execCount,
                   handle, popped, cop, carg, cret, ci>>

StopClearFirst == ClearQueue("stop_clear", "stop_notify")

StopClearLast == ClearQueue("stop_clear2", AfterStop(cop))

\* stop, lines 318-322: notify_all under the mutex.
StopNotify ==
    /\ Live
    /\ cpc = "stop_notify"
    /\ mutex = 0
    /\ wpc' = NotifyAll(wpc)
    /\ cpc' = "stop_join"
    /\ ci' = 0
    /\ UNCHANGED <<q, poolv, widx, wtask, wmode, flag, joinCount, lateCount, taskv, cop, carg,
                   cret>>

\* A join that does not wait for the thread.
ThreadEndedNoWait(w) == TRUE

\* threads[i]->join() (327) returns once the thread function has returned.
ThreadEnded(w) == wpc[w] = "retired"

\* One iteration of the loop of lines 325-328: if (joinable()) join().
StopJoin ==
    /\ Live
    /\ cpc = "stop_join"
    /\ IF ci < Size
       THEN /\ IF wmode[threads[ci + 1]] = "managed"
               THEN /\ ThreadEnded(threads[ci + 1])
                    /\ wmode' = [wmode EXCEPT ![threads[ci + 1]] = "joined"]
                    /\ joinCount' = [joinCount EXCEPT ![threads[ci + 1]] = @ + 1]
               ELSE UNCHANGED <<wmode, joinCount>>
            /\ ci' = ci + 1
            /\ UNCHANGED cpc
       ELSE /\ cpc' = "stop_clear2"
            /\ UNCHANGED <<wmode, joinCount, ci>>
    /\ UNCHANGED <<q, poolv, wpc, widx, wtask, flag, lateCount, taskv, cop, carg, cret>>

\* pop (273-282): the head of the queue, if any, is taken out, copied for the
\* caller and deleted; carg is the task returned (NoTask: an empty function).
Pop ==
    /\ Live
    /\ cpc = "idle"
    /\ cop' = "pop"
    /\ cret' = "done"
    /\ IF ~QueueEmpty(q)
       THEN /\ q' = QueueRest(q)
            /\ carg' = QueueFront(q)
            /\ claimCount' = [claimCount EXCEPT ![QueueFront(q)] = @ + 1]
            /\ freeCount' = [freeCount EXCEPT ![QueueFront(q)] = @ + 1]
            /\ popped' = [popped EXCEPT ![QueueFront(q)] = "held"]
       ELSE /\ carg' = NoTask
            /\ UNCHANGED <<q, claimCount, freeCount, popped>>
    /\ UNCHANGED <<poolv, workv, nPushed, kind, execCount, handle, discarded, cpc, ci>>

\* The caller runs the function pop returned, as the example does:
\* if (f) f(0); (src/example.cpp 245-251). The copy shares the packaged_task.
RunPopped(t) ==
    /\ Live
    /\ cpc = "idle"
    /\ popped[t] = "held"
    /\ popped' = [popped EXCEPT ![t] = "run"]
    /\ execCount' = [execCount EXCEPT ![t] = @ + 1]
    /\ handle' = [handle EXCEPT ![t] = @ \cup {Outcome(kind[t])}]
    /\ UNCHANGED <<q, poolv, workv, nPushed, kind, claimCount, freeCount, discarded,
                   ctlv>>

----------------------------------------------------------------------------
Next ==
    \/ \E k \in {"ok", "throw"} : Push(k)
    \/ PushNotify
    \/ \E n \in 0..MaxSize : Resize(n)
    \/ ShrinkMark
    \/ ShrinkNotify
    \/ \E op \in {"stopNow", "stopWait", "dtor"} : Stop(op)
    \/ StopFlags
    \/ StopClearFirst
    \/ StopNotify
    \/ StopJoin
    \/ StopClearLast
    \/ Pop
    \/ \E t \in Tasks : RunPopped(t)
    \/ \E w \in Workers : Worker(w)

Spec == Init /\ [][Next]_vars

----------------------------------------------------------------------------
(* Vocabulary of the properties *)

Pushed == 1..nPushed

Resolved(t) == handle[t] # {}

\* The controller stands right after the return of a call `op` that acted.
Returned(op) == cop = op /\ cret = "done" /\ cpc = AfterStop(op)

\* The step is the controller's call of `op`, from idle.
IsCall(op) ==
    /\ cpc = "idle"
    /\ cop' = op
    /\ <<cop', carg', cret', cpc'>> # <<cop, carg, cret, cpc>>

\* No worker was detached by a shrinking resize and no task taken out by pop().
PlainRun == (\A w \in Workers : wmode[w] # "detached") /\ (\A t \in Tasks : popped[t] = "no")

----------------------------------------------------------------------------
(* C1 *)

----------------------------------------------------------------------------
(* C2 *)

\* C2: a task's body is started at most once and its pointer is taken out of
\* the queue at most once, by a worker, by pop() or by clear_queue; a task
\* still queued has been taken by nobody, and no two workers hold the same task.
C2_AtMostOnce ==
    /\ \A t \in Tasks : execCount[t] <= 1 /\ claimCount[t] <= 1
    /\ \A k \in 1..Len(q) : claimCount[q[k]] = 0
    /\ \A k, l \in 1..Len(q) : k # l => q[k] # q[l]
    /\ \A v, w \in Workers : (v # w /\ wtask[v] # NoTask) => wtask[v] # wtask[w]
    /\ \A w \in Workers : wtask[w] # NoTask => popped[wtask[w]] = "no" /\ wtask[w] \notin discarded

\* Two workers execute two tasks at the same time.
C2_Witness ==
    \E v, w \in Workers : v # w /\ wpc[v] = "running" /\ wpc[w] = "running"

----------------------------------------------------------------------------
(* A pool that is pushed to, resized to one worker or more and drained with *)
(* stop(true), its threads scheduled fairly.                                *)

ResizeToSome(n) == n >= 1 /\ Resize(n)

NextRun ==
    \/ \E k \in {"ok", "throw"} : Push(k)
    \/ PushNotify
    \/ \E n \in 0..MaxSize : ResizeToSome(n)
    \/ ShrinkMark
    \/ ShrinkNotify
    \/ Stop("stopWait")
    \/ StopNotify
    \/ StopJoin
    \/ StopClearLast
    \/ \E w \in Workers : WorkerLoop(w)
    \/ \E w \in Workers : WSpurious(w)

\* Every thread that can take a step eventually takes one: a worker goes on
\* in its loop, the controller goes on in the call it is in. A thread blocked
\* on the mutex gets it if the mutex is free again and again. Nothing obliges
\* the caller to make a call, or a wait to wake spuriously.
FairRun ==
    /\ Init
    /\ [][NextRun]_vars
    /\ \A w \in Workers : WF_vars(WPop(w) \/ WExecEnd(w) \/ WPred(w) \/ WWoke(w))
    /\ \A w \in Workers : SF_vars(WLock(w) \/ WWake(w))
    /\ SF_vars(PushNotify)
    /\ SF_vars(ShrinkNotify)
    /\ SF_vars(StopNotify)
    /\ WF_vars(ShrinkMark \/ StopJoin \/ StopClearLast)

----------------------------------------------------------------------------
(* C3 *)

----------------------------------------------------------------------------
(* C4 *)

\* C4: the queue is FIFO. Tasks are numbered in the order of their pushes:
\* the queue always holds them in that order, every task already taken out
\* was pushed before every task still queued, and whenever the queue gets
\* shorter it is its head that is taken out and handed over.
C4_Fifo ==
    /\ [](/\ \A k, l \in 1..Len(q) : k < l => q[k] < q[l]
          /\ \A t \in Tasks : claimCount[t] > 0 => \A k \in 1..Len(q) : t < q[k])
    /\ [][Len(q') < Len(q) =>
            /\ q' = Tail(q)
            /\ claimCount' = [claimCount EXCEPT ![Head(q)] = @ + 1]]_vars

\* Tasks 1 and 2 were pushed with no pop in between (no worker exists), and
\* the first pop since has returned task 1.
C4_Witness ==
    /\ NSpawned = 0
    /\ cop = "pop" /\ carg = 1 /\ cpc = "idle"
    /\ q = <<2>>
    /\ claimCount[1] = 1

----------------------------------------------------------------------------
(* C5 *)

\* C5: a task deleted by clear_queue is never executed, resolved or held by
\* anybody; when stop(false) has returned the queue is empty; and on a pool
\* that never spawned a worker every task pushed (and not popped by the
\* caller) has then been discarded unexecuted.
C5_DiscardedNeverRun ==
    /\ \A t \in discarded :
          /\ execCount[t] = 0
          /\ handle[t] = {}
          /\ popped[t] = "no"
          /\ \A w \in Workers : wtask[w] # t
    /\ Returned("stopNow") => q = <<>>
    /\ (Returned("stopNow") /\ NSpawned = 0 /\ \A t \in Tasks : popped[t] = "no")
          => (discarded = Pushed /\ \A t \in Pushed : execCount[t] = 0)

\* stop(false) has returned on a pool without workers to which every task of
\* the model was pushed.
C5_Witness ==
    /\ Returned("stopNow")
    /\ NSpawned = 0
    /\ nPushed = MaxTasks
    /\ discarded = Pushed

----------------------------------------------------------------------------
(* C6 *)

\* C6, with the eventual retirement in the form a finite run refutes: when
\* a resize(k) that acted has returned, size() == k; every worker a shrink
\* detached has its flag set, was never joined, and is not stopped short of
\* its return from the thread function.
C6_ShrunkWorkersRetire ==
    /\ (cop = "resize" /\ cret = "done" /\ cpc = "idle") => Size = carg
    /\ \A w \in Workers : wmode[w] = "detached" =>
          /\ flag[w]
          /\ joinCount[w] = 0
          /\ wpc[w] # "fault"

----------------------------------------------------------------------------
(* C7 *)

StopOps == {"stopNow", "stopWait"}

----------------------------------------------------------------------------
(* C8 *)

\* C8: when a task that throws ends on a worker, the failure is stored in
\* that task's handle and nothing else of the pool changes; the worker goes
\* on to its next pop exactly as after any task, and returns only if its
\* own flag is set.
C8_FailureConfined ==
    [][\A w \in Workers :
          (wpc[w] = "running" /\ wpc'[w] # "running" /\ kind[wtask[w]] = "throw") =>
              /\ handle' = [handle EXCEPT ![wtask[w]] = {"failure"}]
              /\ wpc'[w] = IF flag[w] THEN "retired" ELSE "pop"
              /\ \A v \in Workers \ {w} : wpc'[v] = wpc[v]
              /\ UNCHANGED <<q, poolv, flag, wmode, execCount, ctlv>>]_vars

\* The only worker ever spawned executed task 1, which threw, and is now
\* executing task 2.
C8_Witness ==
    /\ NSpawned = 1
    /\ nPushed >= 2
    /\ kind[1] = "throw" /\ handle[1] = {"failure"} /\ popped[1] = "no"
    /\ \E w \in Workers : wpc[w] = "running" /\ wtask[w] = 2 /\ ~flag[w]

----------------------------------------------------------------------------
(* C9 *)

\* C9: isDone and isStop, once set, stay set; a resize called on a pool that
\* is done or stopped returns at once and changes nothing.
C9_StoppedIsFinal ==
    [][/\ isDone => isDone'
       /\ isStop => isStop'
       /\ (IsCall("resize") /\ (isDone \/ isStop)) =>
              /\ cpc' = "idle"
              /\ cret' = "noop"
              /\ UNCHANGED <<q, poolv, workv, taskv>>]_vars

\* resize(n), n >= 1, has returned without acting on a stopped pool.
C9_Witness ==
    /\ cop = "resize" /\ cret = "noop" /\ cpc = "idle"
    /\ carg >= 1
    /\ isDone \/ isStop
    /\ Size = 0

----------------------------------------------------------------------------
(* C10 *)

\* C10: pop() on a non-empty queue takes out the head and returns it,
\* leaving workers and flags alone; on an empty queue it returns an empty
\* function and changes nothing. A task so returned is never again in the
\* queue, held by a worker or discarded, and its body runs only if the
\* caller runs it.
C10_PopTakesHead ==
    /\ [](\A t \in Tasks : popped[t] # "no" =>
            /\ claimCount[t] = 1
            /\ \A k \in 1..Len(q) : q[k] # t
            /\ \A w \in Workers : wtask[w] # t
            /\ t \notin discarded
            /\ execCount[t] = IF popped[t] = "run" THEN 1 ELSE 0)
    /\ [][IsCall("pop") =>
            IF q # <<>>
            THEN /\ q' = Tail(q)
                 /\ carg' = Head(q)
                 /\ popped' = [popped EXCEPT ![Head(q)] = "held"]
                 /\ UNCHANGED <<poolv, workv, execCount, handle, discarded>>
            ELSE /\ carg' = NoTask
                 /\ UNCHANGED <<q, poolv, workv, taskv>>]_vars

\* The caller holds task 1, taken by pop() from the head of the queue, while
\* a worker executes task 2.
C10_Witness ==
    /\ popped[1] = "held"
    /\ \E w \in Workers : wpc[w] = "running" /\ wtask[w] = 2

----------------------------------------------------------------------------
(* C11 *)

\* The step is worker w's return from the thread function.
Retires(w) == wpc[w] # "retired" /\ wpc'[w] = "retired"

\* C11 as stated: a worker retires only in a state where the queue is empty
\* and its own flag or isDone is set.
C11_RetiresOnEmptyQueue ==
    [][\A w \in Workers : Retires(w) => (q = <<>> /\ (flag[w] \/ isDone))]_vars

\* C11 amended: a worker retires only in a state where its own flag or
\* isDone is set. It retires either right after a task, its own flag set,
\* whatever the queue holds; or out of the wait, holding no task, the pop of
\* the wait predicate having found the queue empty.
C11_RetiresOnSignal ==
    [][\A w \in Workers :
          /\ Retires(w) =>
                /\ flag[w] \/ isDone
                /\ wpc[w] \in {"running", "woke"}
                /\ wpc[w] = "running" => flag[w]
                /\ wpc[w] = "woke" => wtask[w] = NoTask
          /\ (wpc[w] = "pred" /\ wpc'[w] = "woke" /\ wtask'[w] = NoTask) =>
                (q = <<>> /\ (flag[w] \/ isDone))]_vars

\* A worker whose flag a shrink set has retired after its task, leaving a
\* task in the queue, and a worker whose flag is unset has retired on isDone.
C11_Witness ==
    /\ q # <<>>
    /\ \E w \in Workers : wpc[w] = "retired" /\ flag[w] /\ wmode[w] = "detached"
    /\ \E v \in Workers : wpc[v] = "retired" /\ ~flag[v] /\ isDone

----------------------------------------------------------------------------
(* C12 *)

\* A task whose body a worker started is being executed by a worker or has
\* ended and resolved its handle: no task is cut short.
NoTaskCutShort ==
    \A t \in Tasks :
        (execCount[t] >= 1 /\ popped[t] = "no") =>
            (Resolved(t) \/ \E w \in Workers : wpc[w] = "running" /\ wtask[w] = t)

\* C12 as stated: no task is cut short, and a worker never executes a task
\* that it took out of the queue after its flag was set.
C12_NoTaskAfterSignal ==
    /\ NoTaskCutShort
    /\ \A w \in Workers : wpc[w] = "running" => lateCount[w] = 0

\* C12 amended: no task is cut short; a worker that ends a task with its flag
\* set retires without taking anything out of the queue; a worker takes at
\* most one task out of the queue after its flag was set (the pops of lines
\* 465, 476 and 485 do not read the flag), executes it and then retires.
C12_AtMostOneAfterSignal ==
    /\ [](/\ NoTaskCutShort
          /\ \A w \in Workers : lateCount[w] <= 1 /\ (lateCount[w] = 1 => flag[w]))
    /\ [][\A w \in Workers :
            (wpc[w] = "running" /\ wpc'[w] # "running" /\ flag[w]) =>
                /\ handle'[wtask[w]] # {}
                /\ wpc'[w] = "retired"
                /\ UNCHANGED <<q, claimCount, lateCount>>]_vars

\* A worker has retired after executing to its end a task it took out of the
\* queue with its flag set, and has left a task in the queue.
C12_Witness ==
    /\ q # <<>>
    /\ \E w \in Workers :
          /\ wpc[w] = "retired"
          /\ lateCount[w] = 1
          /\ \E t \in Pushed : Resolved(t) /\ popped[t] = "no"

----------------------------------------------------------------------------
(* C13 *)

\* C13: a worker that ends a task and finds its flag set retires in that very
\* step, whatever the queue holds: it takes nothing out of the queue, which
\* stays as it is; a retired worker holds no task and takes no further step.
C13_RetiresAtOnce ==
    /\ [][\A w \in Workers :
            (wpc[w] = "running" /\ wpc'[w] # "running" /\ flag[w]) =>
                /\ wpc'[w] = "retired"
                /\ wtask'[w] = NoTask
                /\ UNCHANGED <<q, execCount, claimCount, discarded, nWaiting, mutex>>]_vars
    /\ [][\A w \in Workers :
            wpc[w] = "retired" => (wpc'[w] = "retired" /\ wtask'[w] = NoTask)]_vars

\* A worker signalled while it executed task 1 has retired and left task 2 in
\* the queue, where a managed worker can still take it.
C13_Witness ==
    /\ q = <<2>>
    /\ Resolved(1) /\ popped[1] = "no"
    /\ \E w \in Workers :
          /\ wpc[w] = "retired" /\ flag[w] /\ lateCount[w] = 0
          /\ \E v \in Workers \ {w} : wmode[v] = "managed" /\ wpc[v] = "pop"

----------------------------------------------------------------------------
(* A pool that is pushed to, resized to one worker or more and stopped in   *)
(* either mode, its threads scheduled fairly.                               *)

NextStop ==
    \/ NextRun
    \/ Stop("stopNow")
    \/ StopFlags
    \/ StopClearFirst

\* As FairRun: the controller also goes on inside stop(false).
FairStop ==
    /\ Init
    /\ [][NextStop]_vars
    /\ \A w \in Workers : WF_vars(WPop(w) \/ WExecEnd(w) \/ WPred(w) \/ WWoke(w))
    /\ \A w \in Workers : SF_vars(WLock(w) \/ WWake(w))
    /\ SF_vars(PushNotify)
    /\ SF_vars(ShrinkNotify)
    /\ SF_vars(StopNotify)
    /\ WF_vars(ShrinkMark \/ StopFlags \/ StopClearFirst \/ StopJoin \/ StopClearLast)

----------------------------------------------------------------------------
(* C14 *)

\* Worker w holds task t: it has taken t out of the queue and has not yet
\* ended it.
Holds(w, t) == wtask[w] = t /\ wpc[w] \in {"woke", "running"}

\* C14: a task a worker holds is in nobody else's hands (it is not in the
\* queue, not discarded, not freed, held by no other worker) and its body was
\* started at most once, by nobody but the worker that holds it; whatever
\* flag, isStop and isDone are by then, the worker's step out of the wait
\* starts the task it took out in the wait predicate, and every task held
\* is executed to its end.
C14_HeldTaskRuns ==
    /\ [](\A w \in Workers : \A t \in Tasks :
            Holds(w, t) =>
                /\ claimCount[t] = 1
                /\ t \notin Range(q)
                /\ t \notin discarded
                /\ freeCount[t] = 0
                /\ execCount[t] = IF wpc[w] = "running" THEN 1 ELSE 0
                /\ \A v \in Workers \ {w} : wtask[v] # t)
    /\ [][\A w \in Workers :
            (wpc[w] = "woke" /\ wtask[w] # NoTask /\ wpc'[w] # "woke") =>
                /\ wpc'[w] = "running"
                /\ wtask'[w] = wtask[w]
                /\ execCount'[wtask[w]] = 1]_vars
    /\ [][\A t \in Tasks :
            execCount'[t] # execCount[t] =>
                \E w \in Workers : wtask'[w] = t /\ wpc'[w] = "running"]_vars
    /\ \A w \in Workers : \A t \in Tasks :
            Holds(w, t) ~> (handle[t] # {} /\ execCount[t] = 1)

\* stop(false) has set isStop and the flag of a worker that holds a task it
\* took out in the wait predicate before its flag was set, and has not
\* started yet.
C14_Witness ==
    \E w \in Workers :
        /\ wpc[w] = "woke" /\ wtask[w] # NoTask
        /\ lateCount[w] = 0
        /\ flag[w] /\ isStop
        /\ cpc \in {"stop_clear", "stop_notify"}

----------------------------------------------------------------------------
(* C15 *)

\* The controller is inside a stop(false) that acted, past the flag loop.
InStopNow ==
    /\ cop = "stopNow" /\ cret = "done"
    /\ cpc \in {"stop_clear", "stop_notify", "stop_join", "stop_clear2"}

\* C15: stop(false) sets the flag of every managed worker before it notifies
\* and joins; when the join loop is through, every one of them has been
\* joined, has returned from its thread function and holds no task; when
\* stop(false) has returned, size() is 0, the queue is empty, no worker is
\* managed any more, every joined worker has retired, and no task was cut
\* short.
C15_StopNowRetiresAll ==
    /\ InStopNow => \A k \in 1..Size : flag[threads[k]]
    /\ (InStopNow /\ cpc = "stop_join") =>
          \A k \in 1..ci : wpc[threads[k]] = "retired" /\ wmode[threads[k]] = "joined"
    /\ (InStopNow /\ cpc = "stop_clear2") =>
          \A k \in 1..Size :
              /\ wpc[threads[k]] = "retired"
              /\ wmode[threads[k]] = "joined"
              /\ wtask[threads[k]] = NoTask
    /\ Returned("stopNow") =>
          /\ Size = 0
          /\ q = <<>>
          /\ NoTaskCutShort
          /\ \A w \in Workers :
                /\ wmode[w] # "managed"
                /\ wmode[w] = "joined" =>
                      (wpc[w] = "retired" /\ wtask[w] = NoTask /\ (flag[w] \/ isDone))

\* stop(false) has returned on a running pool of two workers: both were
\* joined with their flags set, one task was executed and one discarded.
C15_Witness ==
    /\ Returned("stopNow")
    /\ ~isDone
    /\ \A w \in Workers : wmode[w] = "joined" /\ flag[w] /\ wpc[w] = "retired"
    /\ \E t \in Pushed : Resolved(t) /\ popped[t] = "no"
    /\ discarded # {}

----------------------------------------------------------------------------
(* C16 *)

\* The controller is inside a shrinking resize.
InShrink == cpc \in {"shrink_mark", "shrink_notify"}

\* The slots a resize(n) called at size m leaves in place: 1..min(n, m).
Surviving == 1..(IF InShrink /\ carg < Size THEN carg ELSE Size)

\* C16: on a pool that saw no stop(false), the worker of every surviving
\* slot k has index k - 1, an unset flag, is managed (joined once stop(true)
\* joined it) and does not retire before isDone is set; when the loop of a
\* shrink from m to n is through, the flag is set for exactly the slots
\* n+1..m, which are detached; a growing resize leaves every existing worker
\* as it is and gives the new slots managed workers with unset flags; the
\* notification of a shrink cuts the vector to n and does no more to the
\* workers than wake those that wait.
C16_SurvivorsUntouched ==
    /\ [](~isStop =>
            \A k \in Surviving :
                /\ widx[threads[k]] = k - 1
                /\ ~flag[threads[k]]
                /\ wmode[threads[k]] \in {"managed", "joined"}
                /\ wmode[threads[k]] = "joined" => isDone
                /\ wpc[threads[k]] = "retired" => isDone)
    /\ [](cpc = "shrink_notify" =>
            \A k \in 1..Size :
                /\ flag[threads[k]] <=> k > carg
                /\ wmode[threads[k]] = "detached" <=> k > carg)
    /\ [][(IsCall("resize") /\ cret' = "done" /\ Size <= carg') =>
            /\ Len(threads') = carg'
            /\ \A k \in 1..Size : threads'[k] = threads[k]
            /\ \A k \in (Size + 1)..carg' :
                  /\ wmode[threads'[k]] = "unborn"
                  /\ wmode'[threads'[k]] = "managed"
                  /\ ~flag'[threads'[k]]
                  /\ widx'[threads'[k]] = k - 1
            /\ \A w \in Workers : wmode[w] # "unborn" =>
                  /\ flag'[w] = flag[w] /\ wmode'[w] = wmode[w] /\ wpc'[w] = wpc[w]
                  /\ widx'[w] = widx[w] /\ wtask'[w] = wtask[w]
            /\ UNCHANGED <<q, isDone, isStop, nWaiting, mutex, taskv>>]_vars
    /\ [][(cpc = "shrink_mark") =>
            \A w \in Workers :
                (flag'[w] # flag[w] \/ wmode'[w] # wmode[w]) =>
                    \E k \in (carg + 1)..Size : threads[k] = w]_vars
    /\ [][(cpc = "shrink_notify" /\ cpc' = "idle") =>
            /\ threads' = SubSeq(threads, 1, carg)
            /\ \A w \in Workers :
                  wpc'[w] = IF wpc[w] = "waiting" THEN "notified" ELSE wpc[w]
            /\ UNCHANGED <<q, flag, wmode, widx, wtask, taskv>>]_vars

\* resize(1) has returned on a pool of two workers: the worker of slot 1 has
\* been detached with its flag set, the worker of slot 0 is managed, its
\* flag unset, and executes a task.
C16_Witness ==
    /\ cop = "resize" /\ carg = 1 /\ cret = "done" /\ cpc = "idle"
    /\ Size = 1
    /\ ~flag[threads[1]] /\ wmode[threads[1]] = "managed" /\ wpc[threads[1]] = "running"
    /\ \E w \in Workers : wmode[w] = "detached" /\ flag[w] /\ widx[w] = 1

----------------------------------------------------------------------------
(* C17 *)

\* The workers between ++nWaiting (481) and --nWaiting (489).
Parked == {w \in Workers : wpc[w] \in {"pred", "waiting", "notified", "woke"}}

\* C17: as long as the pool object exists, nWaiting (what n_idle() returns)
\* is the number of workers between the increment and the decrement, hence
\* never negative; the worker that holds the mutex is one of them; and
\* nWaiting changes only by one, in a step of a worker that holds the mutex
\* when it changes it (the step that takes the mutex increments, the step
\* that decrements releases it).
C17_WaitingCountExact ==
    /\ [](cpc # "gone" =>
            /\ nWaiting = Cardinality(Parked)
            /\ nWaiting >= 0
            /\ mutex # 0 => (mutex \in Parked /\ wpc[mutex] \in {"pred", "woke"}))
    /\ [][(cpc # "gone" /\ nWaiting' # nWaiting) =>
            \E w \in Workers :
                /\ wpc'[w] # wpc[w]
                /\ \/ mutex = 0 /\ mutex' = w /\ nWaiting' = nWaiting + 1
                   \/ mutex = w /\ mutex' = 0 /\ nWaiting' = nWaiting - 1]_vars

\* n_idle() is 2 on a live pool: one worker is blocked in the wait, the other
\* has left the wait with a task and is about to decrement.
C17_Witness ==
    /\ cpc # "gone"
    /\ nWaiting = 2
    /\ \E v, w \in Workers :
          wpc[v] = "waiting" /\ wpc[w] = "woke" /\ wtask[w] # NoTask

----------------------------------------------------------------------------
(* C18 *)

\* The workers on their way to a pop of the queue: about to pop, executing a
\* task with their flag unset, or between the lock and the end of the wait
\* with a wakeup of their own.
Awake ==
    {w \in Workers :
        \/ wpc[w] \in {"pop", "lock", "pred", "notified", "woke"}
        \/ wpc[w] = "running" /\ ~flag[w]}

\* C18: once push has notified, a non-empty queue never leaves every worker
\* blocked in the wait: while one is blocked, another is on its way to a pop;
\* no worker stays blocked for ever while the queue holds a task; and every
\* task that is in the queue while a managed worker with an unset flag
\* exists is eventually taken out and executed, for every sequence of push,
\* resize(n >= 1) and stop(true).
C18_NoLostWakeup ==
    /\ []((q # <<>> /\ cpc # "push_notify" /\ Waiting # {}) => Awake # {})
    /\ \A w \in Workers :
          (wpc[w] = "waiting" /\ q # <<>>) ~> (wpc[w] # "waiting" \/ q = <<>>)
    /\ \A t \in Tasks :
          (t \in Range(q) /\ \E w \in Workers : wmode[w] = "managed" /\ ~flag[w])
              ~> (execCount[t] = 1 /\ t \notin Range(q))

\* The pool's only worker stands in the wait predicate, the mutex held,
\* after a pop that failed; a task was pushed and push's notification found
\* nobody blocked (or woke this very worker): the queue holds the task.
C18_Witness ==
    /\ NSpawned = 1
    /\ cop = "push" /\ cpc = "idle"
    /\ q # <<>>
    /\ \E w \in Workers :
          wpc[w] = "pred" /\ mutex = w /\ ~flag[w] /\ wmode[w] = "managed"

----------------------------------------------------------------------------
(* C19 *)

\* The controller is inside a call of stop that acted.
InStop ==
    cpc \in {"stop_flags", "stop_clear", "stop_notify", "stop_join", "stop_clear2"}

\* C19: every call of stop returns, stop(false) as well as stop(true), and
\* every worker that is in the vector while stop runs returns from its
\* thread function and is joined, wherever it stood when stop was called.
C19_StopTerminates ==
    /\ \A op \in StopOps : (cop = op /\ InStop) ~> Returned(op)
    /\ \A w \in Workers :
          (InStop /\ w \in Range(threads)) ~> (wpc[w] = "retired" /\ wmode[w] = "joined")

\* stop is in its join loop, waiting for a worker that was blocked in the
\* wait and has been notified, while the other worker executes a task.
C19_Witness ==
    /\ cpc = "stop_join" /\ ci = 0 /\ Size = 2
    /\ wpc[threads[1]] = "notified"
    /\ wpc[threads[2]] = "running"

----------------------------------------------------------------------------
(* C20 *)

\* C20: when stop(true) has returned or the pool has been destroyed, every
\* thread ever spawned has returned from its thread function; once the pool
\* is destroyed no worker stands at a step that reads or writes q, mutex, cv,
\* nWaiting or isDone, and none has brought the process down there.
C20_NoWorkerOutlivesPool ==
    /\ (Returned("stopWait") \/ cpc = "gone") =>
          \A w \in Workers : wmode[w] # "unborn" => wpc[w] = "retired"
    /\ cpc = "gone" =>
          \A w \in Workers : wpc[w] \notin (TouchesPool \cup {"fault"})

----------------------------------------------------------------------------
(* C21 *)

\* The threads that were started and have not returned from the thread
\* function.
Alive == {w \in Workers : wpc[w] \notin {"unborn", "retired"}}

\* C21: no two threads that have not yet returned carry the same index i, so
\* no two tasks executed at the same time are passed the same id.
C21_UniqueIds ==
    \A v, w \in Alive : v # w => widx[v] # widx[w]

----------------------------------------------------------------------------
(* C22 *)

\* The workers inside (*_f)(i).
Executing == {w \in Workers : wpc[w] = "running"}

\* C22 as stated: the number of tasks executed by workers at the same time
\* is at most size().
C22_AtMostSize == Cardinality(Executing) <= Size

\* C22 amended: every worker that executes a task is in the vector or was
\* detached by a shrinking resize, so the number of tasks executed at the
\* same time is at most size() plus the number of detached workers that have
\* not yet returned, and at most size() when there is none.
C22_AtMostSizePlusDetached ==
    /\ \A w \in Executing : w \in Range(threads) \/ wmode[w] = "detached"
    /\ Cardinality(Executing) <=
          Size + Cardinality({w \in Alive : wmode[w] = "detached" /\ w \notin Range(threads)})
    /\ (\A w \in Alive : wmode[w] # "detached") => Cardinality(Executing) <= Size

\* resize(1) has returned on a pool of two workers that both execute a task:
\* size() is 1 and two tasks are being executed.
C22_Witness ==
    /\ cop = "resize" /\ carg = 1 /\ cret = "done" /\ cpc = "idle"
    /\ Size = 1
    /\ Cardinality(Executing) = 2
    /\ \E w \in Executing : wmode[w] = "detached" /\ flag[w]

----------------------------------------------------------------------------
(* C23 *)

\* C23: once the pool is destroyed the queue holds no task, and every task
\* pushed has been executed or taken out of the queue and deleted.
C23_NoTaskLeaked ==
    cpc = "gone" =>
        /\ q = <<>>
        /\ \A t \in Pushed : execCount[t] >= 1 \/ freeCount[t] >= 1

====
